---- MODULE Spec2Model ----
(***************************************************************************)
(* State-machine model of the TrustGraph WebSocket client core             *)
(* (src/src/index.ts): the reconnecting socket manager BaseApi, the        *)
(* in-flight table, the single-response call ServiceCall and the streaming *)
(* call ServiceCallMulti.                                                  *)
(*                                                                         *)
(* Every handler of the source is a pure operator from a state record to   *)
(* a state record (the source's single-threaded event loop runs a handler  *)
(* to completion); every action of Next applies one handler to the current *)
(* state.  Time is abstracted: a pending timer may fire at any step.       *)
(***************************************************************************)
EXTENDS Integers, Sequences, FiniteSets, TLC

(***************************************************************************)
(* Bounds of the model                                                     *)
(***************************************************************************)
MaxCalls == 2
MaxRetries == 2
MaxFrames == 2
LiveCalls == 1
MaxSubs == 2

(* BaseApi.maxReconnectAttempts, index.ts:621 *)
maxReconnectAttempts == 10

(* if (retries == undefined) retries = 3, index.ts:940 *)
defaultRetries == 3

(* the timeout FlowsApi.startFlow passes to makeRequest, index.ts:1407 *)
startFlowTimeout == 30000

VARIABLES
  token,              \* BaseApi.token: "undef" (no token given), "" or a non-empty string
  remoteError,        \* the value of the error field in the frames that have one
  ws,                 \* BaseApi.ws: "none" (undefined) or the readyState of the socket held
  id,                 \* BaseApi.id: counter of message identifiers
  inflight,           \* BaseApi.inflight: message id -> call (index into calls)
  reconnectAttempts,  \* BaseApi.reconnectAttempts
  reconnectTimer,     \* BaseApi.reconnectTimer: TRUE when it holds a timer handle
  reconnectTimers,    \* number of pending timers armed by scheduleReconnect
  reconnectionState,  \* BaseApi.reconnectionState
  lastError,          \* BaseApi.lastError
  published,          \* last snapshot handed to the listeners by notifyStateChange
  calls,              \* the ServiceCall / ServiceCallMulti objects, in order of creation
  hist,               \* per call: what the caller and the transport have observed
  listeners,          \* BaseApi.connectionStateListeners: the array of listener functions
  handles,            \* the unsubscribe functions onConnectionStateChange has returned
  delivered,          \* per listener: the snapshots it was handed by the handler that ran last
  issued              \* the requests FlowsApi has handed to makeRequest, with the arguments it was given

vars == <<token, remoteError, ws, id, inflight, reconnectAttempts, reconnectTimer, reconnectTimers, reconnectionState,
          lastError, published, calls, hist, listeners, handles, delivered, issued>>

(***************************************************************************)
(* Listener functions the application may subscribe.  A listener either    *)
(* returns normally or throws whenever it is called.                       *)
(***************************************************************************)
ListenerIds == {"l1", "l2", "thrower"}

(* calling the listener throws *)
Throws(l) == l = "thrower"

(* a listener that waits for one change: when notifyStateChange calls it, it
   calls the unsubscribe function its subscription returned *)
OnceListeners == {"once"}

AllListeners == ListenerIds \cup OnceListeners

(* nothing has been handed to any listener yet *)
NoDeliveries == [l \in AllListeners |-> << >>]

(***************************************************************************)
(* Values carried by inbound frames.  A frame is {id, response}; the       *)
(* response is absent ("undef"), or an object.  The objects are named by   *)
(* their shape:                                                            *)
(*   "plain"    {x: 1}                  no error, no response field        *)
(*   "err"      {error: e}                                                 *)
(*   "wrap"     {response: inner}       inner = {y: 2}                     *)
(*   "wrapErr"  {response: innerErr}    innerErr = {error: e}              *)
(* The error value e is the same in every frame of a run (remoteError): an *)
(* object, whose message and type fields are each absent ("undef"), a      *)
(* number ("num"), the empty string or a non-empty string; a non-empty     *)
(* string; the empty string; or null.                                      *)
(***************************************************************************)
ErrorValues ==
  [kind : {"object"}, message : {"undef", "num", "", "remote error"},
                      type : {"undef", "num", "", "service-error"}]
    \cup [kind : {"string", "emptyString", "null"}, message : {"undef"}, type : {"undef"}]

(* if (errorToHandle): the value is truthy *)
Truthy(e) == e.kind \in {"object", "string"}

(* typeof v === "string", for the value of a field *)
IsStringValue(v) == v \notin {"undef", "num"}

(* the message expression that takes the message field whenever it is a string *)
errorMessage_emptyMessage(e) ==
  IF IsStringValue(e.message) THEN e.message
  ELSE IF IsStringValue(e.type) /\ e.type # "" THEN e.type
  ELSE "Unknown error"

(* the errorMessage expression of ServiceCall.onReceived: a || b || c takes
   the first operand that is not null and not the empty string *)
errorMessage(e) ==
  LET m == IF IsStringValue(e.message) THEN e.message ELSE "null"
      ty == IF IsStringValue(e.type) THEN e.type ELSE "null"
  IN IF m \notin {"null", ""} THEN m
     ELSE IF ty \notin {"null", ""} THEN ty
     ELSE "Unknown error"

Responses == {"undef", "plain", "err", "wrap", "wrapErr"}

(* typeof v === "object" && v (truthy) *)
IsObject(v) == v \in {"plain", "err", "wrap", "wrapErr", "inner", "innerErr"}

(* "error" in v *)
HasErrorField(v) == v \in {"err", "innerErr"}

(* "response" in v *)
HasResponseField(v) == v \in {"wrap", "wrapErr"}

(* v.response *)
ResponseField(v) ==
  CASE v = "wrap" -> "inner"
    [] v = "wrapErr" -> "innerErr"
    [] OTHER -> "undef"

(* The state a handler starts from, as one record, so that handlers compose as
   the source's calls do; the record of what the handler hands to the
   listeners starts empty *)
St == [token |-> token, remoteError |-> remoteError, ws |-> ws, id |-> id, inflight |-> inflight,
       reconnectAttempts |-> reconnectAttempts, reconnectTimer |-> reconnectTimer,
       reconnectTimers |-> reconnectTimers,
       reconnectionState |-> reconnectionState, lastError |-> lastError,
       published |-> published, calls |-> calls, hist |-> hist,
       listeners |-> listeners, handles |-> handles, delivered |-> NoDeliveries,
       issued |-> issued]

Apply(s) ==
  /\ token' = s.token
  /\ remoteError' = s.remoteError
  /\ ws' = s.ws
  /\ id' = s.id
  /\ inflight' = s.inflight
  /\ reconnectAttempts' = s.reconnectAttempts
  /\ reconnectTimer' = s.reconnectTimer
  /\ reconnectTimers' = s.reconnectTimers
  /\ reconnectionState' = s.reconnectionState
  /\ lastError' = s.lastError
  /\ published' = s.published
  /\ calls' = s.calls
  /\ hist' = s.hist
  /\ listeners' = s.listeners
  /\ handles' = s.handles
  /\ delivered' = s.delivered
  /\ issued' = s.issued

(* delete table[mid] *)
Delete(table, mid) == [k \in (DOMAIN table) \ {mid} |-> table[k]]

(* table[mid] = c *)
Put(table, mid, c) == [k \in (DOMAIN table) \cup {mid} |-> IF k = mid THEN c ELSE table[k]]

(***************************************************************************)
(* Connection state snapshot                                               *)
(***************************************************************************)
(* the token arguments of the constructor *)
Tokens == {"undef", "", "tok"}

(* !!this.token *)
hasApiKey(s) == s.token \notin {"undef", ""}

(* getConnectionState() that reports every open socket as authenticated *)
getConnectionState_alwaysAuth(s) ==
  LET status ==
        IF s.ws = "none"
          THEN (IF s.reconnectionState = "failed" THEN "failed"
                ELSE IF s.reconnectionState = "reconnecting" THEN "reconnecting"
                ELSE "connecting")
          ELSE IF s.ws = "connecting" THEN "connecting"
          ELSE IF s.ws = "open" THEN "authenticated"
          ELSE "connecting"
  IN [status |-> status,
      hasApiKey |-> hasApiKey(s),
      lastError |-> s.lastError,
      reconnectAttempt |-> IF status = "reconnecting" THEN s.reconnectAttempts ELSE 0]

(* BaseApi.getConnectionState *)
getConnectionState(s) ==
  LET status ==
        IF s.ws = "none"
          THEN (IF s.reconnectionState = "failed" THEN "failed"
                ELSE IF s.reconnectionState = "reconnecting" THEN "reconnecting"
                ELSE "connecting")
          ELSE IF s.ws = "connecting" THEN "connecting"
          ELSE IF s.ws = "open"
            THEN (IF hasApiKey(s) THEN "authenticated" ELSE "unauthenticated")
          ELSE "connecting"
  IN [status |-> status,
      hasApiKey |-> hasApiKey(s),
      lastError |-> s.lastError,
      reconnectAttempt |-> IF status = "reconnecting" THEN s.reconnectAttempts ELSE 0]

(* array.indexOf(l): the first index holding l, 0 for JavaScript's -1 *)
IndexOf(arr, l) ==
  IF \E i \in DOMAIN arr : arr[i] = l
    THEN CHOOSE i \in DOMAIN arr : arr[i] = l /\ \A j \in 1..(i - 1) : arr[j] # l
    ELSE 0

(* array.splice(i, 1) *)
Splice(arr, i) == SubSeq(arr, 1, i - 1) \o SubSeq(arr, i + 1, Len(arr))

(* the unsubscribe function returned by onConnectionStateChange, handle h *)
unsubscribe(s, h) ==
  LET index == IndexOf(s.listeners, s.handles[h].listener)
      s1 == [s EXCEPT !.handles[h].called = TRUE]
  IN IF index > 0 THEN [s1 EXCEPT !.listeners = Splice(@, index)] ELSE s1

(* the unsubscribe function listener l holds: the one its latest subscription
   returned, 0 when it holds none *)
HandleOf(s, l) ==
  IF \E h \in DOMAIN s.handles : s.handles[h].listener = l
    THEN CHOOSE h \in DOMAIN s.handles :
           /\ s.handles[h].listener = l
           /\ \A g \in DOMAIN s.handles : s.handles[g].listener = l => g <= h
    ELSE 0

(* the body of listener l called with a snapshot by notifyStateChange *)
CallListener(s, l, state) ==
  LET s1 == [s EXCEPT !.delivered[l] = Append(@, state)]
  IN IF l \in OnceListeners /\ HandleOf(s1, l) # 0
       THEN unsubscribe(s1, HandleOf(s1, l))
       ELSE s1

(* this.connectionStateListeners.forEach(...) from index i on, each listener
   called inside try/catch: an exception is logged and the loop goes on.
   forEach reads the array at each index, so it sees what a listener has
   spliced out of it *)
RECURSIVE ForEachListener(_, _, _)
ForEachListener(s, state, i) ==
  IF i > Len(s.listeners) THEN s
  ELSE ForEachListener(CallListener(s, s.listeners[i], state), state, i + 1)

(* the loop without try/catch: the first listener that throws ends it *)
RECURSIVE ForEachListenerNoCatch(_, _, _)
ForEachListenerNoCatch(s, state, i) ==
  IF i > Len(s.listeners) THEN s
  ELSE LET s1 == [s EXCEPT !.delivered[s.listeners[i]] = Append(@, state)]
       IN IF Throws(s.listeners[i]) THEN s1
          ELSE ForEachListenerNoCatch(s1, state, i + 1)

(* notifyStateChange() whose loop is not protected by try/catch *)
notifyStateChange_noCatch(s) ==
  ForEachListenerNoCatch([s EXCEPT !.published = getConnectionState(s)],
                         getConnectionState(s), 1)

(* BaseApi.notifyStateChange *)
notifyStateChange(s) ==
  ForEachListener([s EXCEPT !.published = getConnectionState(s)], getConnectionState(s), 1)

(* BaseApi.onConnectionStateChange(l): the listener is pushed and called with
   the current snapshot outside any try/catch; when it throws, the exception
   leaves onConnectionStateChange and no unsubscribe function is returned *)
onConnectionStateChange(s, l) ==
  LET s1 == [s EXCEPT !.listeners = Append(@, l),
                      !.delivered[l] = Append(@, getConnectionState(s))]
  IN IF Throws(l) THEN s1
     ELSE [s1 EXCEPT !.handles = Append(@, [listener |-> l, called |-> FALSE])]

(***************************************************************************)
(* Callbacks of a call, as the caller observes them                        *)
(***************************************************************************)
(* this.error(msg) of call c *)
InvokeError(s, c, msg) == [s EXCEPT !.hist[c].errs = Append(@, msg)]

(* this.success(v) of call c *)
InvokeSuccess(s, c, v) == [s EXCEPT !.hist[c].succs = Append(@, v)]

(* the calls that are values of the in-flight table *)
InTable(s) == {s.inflight[m] : m \in DOMAIN s.inflight}

(* for (const mid in this.inflight) this.inflight[mid].error(new Error(msg)) *)
ErrorAll(s, msg) ==
  [s EXCEPT !.hist = [c \in DOMAIN s.hist |->
                        IF c \in InTable(s)
                          THEN [s.hist[c] EXCEPT !.errs = Append(@, msg)]
                          ELSE s.hist[c]]]

(***************************************************************************)
(* Connection manager (BaseApi)                                            *)
(***************************************************************************)
(* this.reconnectTimer = setTimeout(...) *)
SetReconnectTimer(s) ==
  [s EXCEPT !.reconnectTimer = TRUE, !.reconnectTimers = @ + 1]

(* if (this.reconnectTimer) { clearTimeout(this.reconnectTimer);
   this.reconnectTimer = undefined } *)
ClearReconnectTimer(s) ==
  IF s.reconnectTimer
    THEN [s EXCEPT !.reconnectTimer = FALSE, !.reconnectTimers = @ - 1]
    ELSE s

(* the callback of the reconnect timer, up to its call of reopen() *)
ReconnectTimerCallback(s) ==
  [s EXCEPT !.reconnectTimer = FALSE, !.reconnectTimers = @ - 1]

(* scheduleReconnect() without its two early returns *)
scheduleReconnect_unguarded(s) ==
  LET s1 == notifyStateChange([s EXCEPT !.reconnectionState = "reconnecting",
                                        !.reconnectAttempts = @ + 1])
  IN IF s1.reconnectAttempts > maxReconnectAttempts
       THEN ErrorAll(notifyStateChange([s1 EXCEPT !.reconnectionState = "failed",
                                                  !.lastError = "max"]),
                     "WebSocket connection failed")
       ELSE SetReconnectTimer(s1)

(* scheduleReconnect() that goes on while a reconnect is in progress *)
scheduleReconnect_noProgressGuard(s) ==
  IF s.reconnectTimer THEN s
  ELSE
    LET s1 == notifyStateChange([s EXCEPT !.reconnectionState = "reconnecting",
                                          !.reconnectAttempts = @ + 1])
    IN IF s1.reconnectAttempts > maxReconnectAttempts
         THEN ErrorAll(notifyStateChange([s1 EXCEPT !.reconnectionState = "failed",
                                                    !.lastError = "max"]),
                       "WebSocket connection failed")
         ELSE SetReconnectTimer(s1)

(* BaseApi.scheduleReconnect *)
scheduleReconnect(s) ==
  IF s.reconnectionState = "reconnecting" THEN s
  ELSE IF s.reconnectTimer THEN s
  ELSE
    LET s1 == notifyStateChange([s EXCEPT !.reconnectionState = "reconnecting",
                                          !.reconnectAttempts = @ + 1])
    IN IF s1.reconnectAttempts > maxReconnectAttempts
         THEN ErrorAll(notifyStateChange([s1 EXCEPT !.reconnectionState = "failed",
                                                    !.lastError = "max"]),
                       "WebSocket connection failed")
         ELSE SetReconnectTimer(s1)

(* openSocket() without the check of the socket already held *)
openSocket_unguarded(s, ctorOk) ==
  LET s1 == [s EXCEPT !.ws = "none"]
  IN IF ctorOk
       THEN [s1 EXCEPT !.ws = "connecting"]
       ELSE scheduleReconnect(s1)

(* BaseApi.openSocket; ctorOk: new WebSocket(url) returns instead of throwing *)
openSocket(s, ctorOk) ==
  IF s.ws \in {"connecting", "open"} THEN s
  ELSE
    LET s1 == [s EXCEPT !.ws = "none"]
    IN IF ctorOk
         THEN [s1 EXCEPT !.ws = "connecting"]
         ELSE scheduleReconnect(s1)

(* BaseApi.reopen *)
reopen(s, ctorOk) ==
  IF s.ws \in {"open", "connecting"} THEN s
  ELSE openSocket(s, ctorOk)

(* BaseApi.onOpen, run when the socket held reports open *)
onOpen(s) ==
  notifyStateChange(ClearReconnectTimer([s EXCEPT !.reconnectAttempts = 0,
                                                  !.reconnectionState = "idle",
                                                  !.lastError = "none"]))

(* BaseApi.onClose *)
onClose(s) ==
  scheduleReconnect(notifyStateChange([s EXCEPT !.lastError = "closed", !.ws = "none"]))

(* BaseApi.onError *)
onError(s) == notifyStateChange([s EXCEPT !.lastError = "error"])

(* close() that clears the table without failing the calls in it *)
close_silent(s) ==
  [ClearReconnectTimer(s) EXCEPT !.ws = "none", !.inflight = << >>]

(* BaseApi.close *)
close(s) ==
  LET s1 == [ClearReconnectTimer(s) EXCEPT !.ws = "none"]
  IN [ErrorAll(s1, "Socket closed") EXCEPT !.inflight = << >>]

(* getNextId() that forgets to advance the counter *)
getNextId_noIncrement(s) == [mid |-> s.id, s |-> s]

(* BaseApi.getNextId: the identifier is tag + "-" + id; the tag is fixed for
   the instance, so the identifier is modelled by the counter value *)
getNextId(s) == [mid |-> s.id, s |-> [s EXCEPT !.id = @ + 1]]

(***************************************************************************)
(* Timers of a call.  timeoutId names the live timer the call's timeoutId  *)
(* refers to ("none" when it refers to no live timer); a timer armed       *)
(* without being stored, or whose handle was overwritten, is a stray timer.*)
(***************************************************************************)
(* clearTimeout(this.timeoutId) *)
ClearTimeout(s, c) == [s EXCEPT !.calls[c].timeoutId = "none"]

(* this.timeoutId = setTimeout(callback, ...) *)
SetTrackedTimer(s, c, callback) ==
  LET old == s.calls[c].timeoutId
      s1 == IF old = "onTimeout" THEN [s EXCEPT !.calls[c].strayTimeout = @ + 1]
            ELSE IF old = "attempt" THEN [s EXCEPT !.calls[c].strayAttempt = @ + 1]
            ELSE s
  IN [s1 EXCEPT !.calls[c].timeoutId = callback]

(* setTimeout(this.attempt.bind(this), ...) with the handle dropped *)
SetStrayAttemptTimer(s, c) == [s EXCEPT !.calls[c].strayAttempt = @ + 1]

(* this.socket.ws.send(JSON.stringify(this.msg)) returning normally *)
Send(s, c) == [s EXCEPT !.hist[c].sends = @ + 1]

(* the retry-exhaustion branch emptying the whole table instead of deleting one entry *)
RanOut_clearsTable(s, c) ==
  InvokeError([ClearTimeout(s, c) EXCEPT !.inflight = << >>], c, "Ran out of retries")

(* the retry-exhaustion branch shared by both attempt() methods *)
RanOut(s, c) ==
  InvokeError([ClearTimeout(s, c) EXCEPT !.inflight = Delete(@, s.calls[c].mid)],
              c, "Ran out of retries")

(***************************************************************************)
(* Single-response call (ServiceCall)                                      *)
(***************************************************************************)
(* attempt() that gives up when the budget reaches zero instead of below zero *)
attempt_failsEarly(s, c, sendOk) ==
  LET s1 == [s EXCEPT !.calls[c].retries = @ - 1, !.hist[c].attempts = @ + 1]
  IN IF s1.calls[c].retries <= 0 THEN RanOut(s1, c)
     ELSE IF s1.ws = "open"
       THEN (IF sendOk THEN SetTrackedTimer(Send(s1, c), c, "onTimeout")
             ELSE SetTrackedTimer(s1, c, "attempt"))
       ELSE SetStrayAttemptTimer(s1, c)

(* attempt() that gives up one invocation too late *)
attempt_oneTooMany(s, c, sendOk) ==
  LET s1 == [s EXCEPT !.calls[c].retries = @ - 1, !.hist[c].attempts = @ + 1]
  IN IF s1.calls[c].retries < -1 THEN RanOut(s1, c)
     ELSE IF s1.ws = "open"
       THEN (IF sendOk THEN SetTrackedTimer(Send(s1, c), c, "onTimeout")
             ELSE SetTrackedTimer(s1, c, "attempt"))
       ELSE SetStrayAttemptTimer(s1, c)

(* attempt() that arms no backoff timer when the socket is not open *)
attempt_noBackoff(s, c, sendOk) ==
  LET s1 == [s EXCEPT !.calls[c].retries = @ - 1, !.hist[c].attempts = @ + 1]
  IN IF s1.calls[c].retries < 0 THEN RanOut(s1, c)
     ELSE IF s1.ws = "open"
       THEN (IF sendOk THEN SetTrackedTimer(Send(s1, c), c, "onTimeout")
             ELSE SetTrackedTimer(s1, c, "attempt"))
       ELSE s1

(* ServiceCall.attempt; sendOk: ws.send returns instead of throwing *)
attempt(s, c, sendOk) ==
  LET s1 == [s EXCEPT !.calls[c].retries = @ - 1, !.hist[c].attempts = @ + 1]
  IN IF s1.calls[c].retries < 0 THEN RanOut(s1, c)
     ELSE IF s1.ws = "open"
       THEN (IF sendOk THEN SetTrackedTimer(Send(s1, c), c, "onTimeout")
             ELSE SetTrackedTimer(s1, c, "attempt"))
       ELSE SetStrayAttemptTimer(s1, c)

(* onTimeout() that gives the unit of budget back before it attempts again *)
onTimeout_noCost(s, c, sendOk) ==
  attempt([ClearTimeout(s, c) EXCEPT !.calls[c].retries = @ + 1], c, sendOk)

(* ServiceCall.onTimeout *)
onTimeout(s, c, sendOk) == attempt(ClearTimeout(s, c), c, sendOk)

(* ServiceCall.retryNow *)
retryNow(s, c, sendOk) ==
  IF s.calls[c].complete THEN s
  ELSE attempt([ClearTimeout(s, c) EXCEPT !.calls[c].retries = @ + 1], c, sendOk)

(* ServiceCall.onReceived; resp is the argument handed over by onMessage *)
onReceived(s, c, resp) ==
  LET s1 == [ClearTimeout(s, c) EXCEPT !.calls[c].complete = TRUE,
                                       !.inflight = Delete(@, s.calls[c].mid)]
      found ==
        IF IsObject(resp) /\ HasErrorField(resp) THEN TRUE
        ELSE IF IsObject(resp) /\ HasResponseField(resp)
          THEN IsObject(ResponseField(resp)) /\ HasErrorField(ResponseField(resp))
          ELSE FALSE
      errorToHandle == found /\ Truthy(s.remoteError)
  IN IF errorToHandle THEN InvokeError(s1, c, errorMessage(s.remoteError))
     ELSE IF resp = "undef" THEN s1   \* reading .response of undefined throws; onMessage catches
     ELSE InvokeSuccess(s1, c, ResponseField(resp))

(***************************************************************************)
(* Streaming call (ServiceCallMulti)                                       *)
(***************************************************************************)
(* attempt() that reports the exhaustion but leaves the call in the table *)
attemptMulti_keepsEntry(s, c, sendOk, ctorOk) ==
  LET s1 == [s EXCEPT !.calls[c].retries = @ - 1, !.hist[c].attempts = @ + 1]
  IN IF s1.calls[c].retries < 0 THEN InvokeError(ClearTimeout(s1, c), c, "Ran out of retries")
     ELSE IF s1.ws = "open"
       THEN (IF sendOk THEN SetTrackedTimer(Send(s1, c), c, "onTimeout")
             ELSE reopen(SetTrackedTimer(s1, c, "attempt"), ctorOk))
       ELSE IF s1.ws = "connecting" THEN SetStrayAttemptTimer(s1, c)
       ELSE SetStrayAttemptTimer(reopen(s1, ctorOk), c)

(* ServiceCallMulti.attempt *)
attemptMulti(s, c, sendOk, ctorOk) ==
  LET s1 == [s EXCEPT !.calls[c].retries = @ - 1, !.hist[c].attempts = @ + 1]
  IN IF s1.calls[c].retries < 0 THEN RanOut(s1, c)
     ELSE IF s1.ws = "open"
       THEN (IF sendOk THEN SetTrackedTimer(Send(s1, c), c, "onTimeout")
             ELSE reopen(SetTrackedTimer(s1, c, "attempt"), ctorOk))
       ELSE IF s1.ws = "connecting" THEN SetStrayAttemptTimer(s1, c)
       ELSE SetStrayAttemptTimer(reopen(s1, ctorOk), c)

(* onTimeout() that charges nothing for a timeout once frames have been received *)
onTimeoutMulti_progressRefunds(s, c, sendOk, ctorOk) ==
  attemptMulti([ClearTimeout(s, c) EXCEPT !.calls[c].retries =
                  IF s.hist[c].recv > 0 THEN @ + 1 ELSE @],
               c, sendOk, ctorOk)

(* ServiceCallMulti.onTimeout *)
onTimeoutMulti(s, c, sendOk, ctorOk) == attemptMulti(ClearTimeout(s, c), c, sendOk, ctorOk)

(* ServiceCallMulti.retryNow *)
retryNowMulti(s, c, sendOk, ctorOk) ==
  IF s.calls[c].complete THEN s
  ELSE attemptMulti([ClearTimeout(s, c) EXCEPT !.calls[c].retries = @ + 1], c, sendOk, ctorOk)

(* onReceived() that clears the timeout before it looks at what the receiver returned *)
onReceivedMulti_clearsTimer(s, c, resp, fin) ==
  LET s1 == ClearTimeout([s EXCEPT !.hist[c].recv = @ + 1], c)
  IN IF fin
       THEN InvokeSuccess([s1 EXCEPT !.calls[c].complete = TRUE,
                                     !.inflight = Delete(@, s.calls[c].mid)],
                          c, resp)
       ELSE s1

(* onReceived() that terminates the call on every frame, whatever the receiver returns *)
onReceivedMulti_anyFrame(s, c, resp, fin) ==
  InvokeSuccess([ClearTimeout([s EXCEPT !.hist[c].recv = @ + 1], c)
                   EXCEPT !.calls[c].complete = TRUE,
                          !.inflight = Delete(@, s.calls[c].mid)],
                c, resp)

(* ServiceCallMulti.onReceived; fin is what the caller's receiver returns for resp *)
onReceivedMulti(s, c, resp, fin) ==
  LET s1 == [s EXCEPT !.hist[c].recv = @ + 1]
  IN IF fin
       THEN InvokeSuccess([ClearTimeout(s1, c) EXCEPT !.calls[c].complete = TRUE,
                                                      !.inflight = Delete(@, s.calls[c].mid)],
                          c, resp)
       ELSE s1

(***************************************************************************)
(* Dispatch by the class of the call object                                *)
(***************************************************************************)
Attempt(s, c, sendOk, ctorOk) ==
  IF s.calls[c].kind = "single" THEN attempt(s, c, sendOk)
  ELSE attemptMulti(s, c, sendOk, ctorOk)

OnTimeout(s, c, sendOk, ctorOk) ==
  IF s.calls[c].kind = "single" THEN onTimeout(s, c, sendOk)
  ELSE onTimeoutMulti(s, c, sendOk, ctorOk)

OnReceived(s, c, resp, fin) ==
  IF s.calls[c].kind = "single" THEN onReceived(s, c, resp)
  ELSE onReceivedMulti(s, c, resp, fin)

RetryNow(s, c, sendOk, ctorOk) ==
  IF s.calls[c].kind = "single" THEN retryNow(s, c, sendOk)
  ELSE retryNowMulti(s, c, sendOk, ctorOk)

(***************************************************************************)
(* Request router (BaseApi)                                                *)
(***************************************************************************)
(* onMessage() that treats a frame it cannot route as a connection error *)
onMessage_unroutedIsError(s, frame, fin) ==
  IF frame.id # 0 /\ frame.id \in DOMAIN s.inflight
    THEN OnReceived(s, s.inflight[frame.id], frame.response, fin)
    ELSE onError(s)

(* BaseApi.onMessage; frame = [id, response, error], id 0 standing for a frame
   without identifier; only obj.id and obj.response are read *)
onMessage(s, frame, fin) ==
  IF frame.id = 0 THEN s
  ELSE IF frame.id \in DOMAIN s.inflight
    THEN OnReceived(s, s.inflight[frame.id], frame.response, fin)
    ELSE s

(* new ServiceCall(...) / new ServiceCallMulti(...) *)
NewCall(kind, mid, retries) ==
  [kind |-> kind, mid |-> mid, retries |-> retries, complete |-> FALSE,
   timeoutId |-> "none", strayAttempt |-> 0, strayTimeout |-> 0]

(* what is on record about a call when it is created *)
NewHist(retries) ==
  [r0 |-> retries, attempts |-> 0, sends |-> 0, succs |-> << >>, errs |-> << >>,
   recv |-> 0, dropped |-> FALSE]

(* ServiceCall.start / ServiceCallMulti.start of the call created last *)
start(s, sendOk, ctorOk) ==
  LET c == Len(s.calls)
  IN Attempt([s EXCEPT !.inflight = Put(@, s.calls[c].mid, c)], c, sendOk, ctorOk)

(* BaseApi.makeRequest *)
makeRequest(s, retries, sendOk) ==
  LET g == getNextId(s)
      s1 == [g.s EXCEPT !.calls = Append(@, NewCall("single", g.mid, retries)),
                        !.hist = Append(@, NewHist(retries))]
  IN start(s1, sendOk, TRUE)

(* BaseApi.makeRequestMulti *)
makeRequestMulti(s, retries, sendOk, ctorOk) ==
  LET g == getNextId(s)
      s1 == [g.s EXCEPT !.calls = Append(@, NewCall("multi", g.mid, retries)),
                        !.hist = Append(@, NewHist(retries))]
  IN start(s1, sendOk, ctorOk)

(***************************************************************************)
(* FlowsApi.startFlow.  A request payload is the set of its <<key, value>> *)
(* pairs; the parameters argument is absent (undefined), an empty object   *)
(* or an object with at least one key.                                     *)
(***************************************************************************)
ParameterArgs == {"absent", "empty", "some"}

(* the FlowRequest object startFlow builds *)
startFlowRequest(fid, class_name, description, parameters) ==
  {<<"operation", "start-flow">>, <<"flow-id", fid>>, <<"class-name", class_name>>,
   <<"description", description>>}
    \cup (IF parameters = "some" THEN {<<"parameters", parameters>>} ELSE {})

(* what the promise startFlow returns settles with when makeRequest resolves
   with v: the .then handler reads v.error *)
startFlowResult(v) ==
  IF ~IsObject(v) THEN "TypeError"
  ELSE IF HasErrorField(v) THEN "Error"
  ELSE v

(* FlowsApi.startFlow: one makeRequest("flow", request, 30000), retries left
   to the default *)
startFlow(s, fid, class_name, description, parameters, sendOk) ==
  [makeRequest(s, defaultRetries, sendOk) EXCEPT
     !.issued = Append(@, [args |-> [fid |-> fid, class_name |-> class_name,
                                     description |-> description,
                                     parameters |-> parameters],
                           service |-> "flow",
                           request |-> startFlowRequest(fid, class_name, description,
                                                        parameters),
                           timeout |-> startFlowTimeout])]

(***************************************************************************)
(* Initial state: the state after new BaseApi(user, token), whose          *)
(* constructor calls openSocket()                                          *)
(***************************************************************************)
Fresh ==
  [token |-> "undef",
   remoteError |-> [kind |-> "object", message |-> "remote error", type |-> "undef"],
   ws |-> "none", id |-> 1, inflight |-> << >>,
   reconnectAttempts |-> 0, reconnectTimer |-> FALSE, reconnectTimers |-> 0,
   reconnectionState |-> "idle", lastError |-> "none",
   published |-> [status |-> "none", hasApiKey |-> FALSE, lastError |-> "none",
                  reconnectAttempt |-> 0],
   calls |-> << >>, hist |-> << >>,
   listeners |-> << >>, handles |-> << >>, delivered |-> NoDeliveries,
   issued |-> << >>]

Is(s) ==
  /\ token = s.token
  /\ remoteError = s.remoteError
  /\ ws = s.ws
  /\ id = s.id
  /\ inflight = s.inflight
  /\ reconnectAttempts = s.reconnectAttempts
  /\ reconnectTimer = s.reconnectTimer
  /\ reconnectTimers = s.reconnectTimers
  /\ reconnectionState = s.reconnectionState
  /\ lastError = s.lastError
  /\ published = s.published
  /\ calls = s.calls
  /\ hist = s.hist
  /\ listeners = s.listeners
  /\ handles = s.handles
  /\ delivered = s.delivered
  /\ issued = s.issued

(* new BaseApi(user): the constructor, given no token, runs openSocket() *)
Init == \E ctorOk \in BOOLEAN : Is(openSocket(Fresh, ctorOk))

(***************************************************************************)
(* Actions                                                                 *)
(***************************************************************************)
Calls == 1..Len(calls)
RetryVals == 0..MaxRetries

(* the outcomes of ws.send, which is reached only when the socket is open *)
SendOutcomes == IF ws = "open" THEN BOOLEAN ELSE {TRUE}

(* the outcomes of new WebSocket(url), which is reached only when no socket
   is connecting or open *)
CtorOutcomes == IF ws \in {"connecting", "open"} THEN {TRUE} ELSE BOOLEAN

(* the application issues a single-response request *)
MakeRequest ==
  \E r \in RetryVals, sendOk \in SendOutcomes :
    /\ Len(calls) < MaxCalls
    /\ Apply(makeRequest(St, r, sendOk))

(* the application issues a streaming request *)
MakeRequestMulti ==
  \E r \in RetryVals, sendOk \in SendOutcomes, ctorOk \in CtorOutcomes :
    /\ Len(calls) < MaxCalls
    /\ Apply(makeRequestMulti(St, r, sendOk, ctorOk))

(* the timer the call's timeoutId refers to fires *)
FireTimer(c) ==
  \E sendOk \in SendOutcomes, ctorOk \in CtorOutcomes :
    /\ c \in Calls
    /\ calls[c].timeoutId # "none"
    /\ Apply(IF calls[c].timeoutId = "onTimeout"
               THEN OnTimeout(ClearTimeout(St, c), c, sendOk, ctorOk)
               ELSE Attempt(ClearTimeout(St, c), c, sendOk, ctorOk))

(* a timer armed by setTimeout(this.attempt.bind(this), ...) without a stored handle fires *)
FireStrayAttempt(c) ==
  \E sendOk \in SendOutcomes, ctorOk \in CtorOutcomes :
    /\ c \in Calls
    /\ calls[c].strayAttempt > 0
    /\ Apply(Attempt([St EXCEPT !.calls[c].strayAttempt = @ - 1], c, sendOk, ctorOk))

(* the identifiers a frame can bear: none (0), one no call bears (MaxCalls + 1),
   or the one of a request that was sent *)
FrameIds == {0, MaxCalls + 1} \cup {calls[c].mid : c \in {d \in Calls : hist[d].sends > 0}}

(* the frames the transport can deliver, as parsed by onMessage: {id, response},
   or {id, error} with the error at the top level and no response field *)
Frames ==
  [id : FrameIds, response : Responses, error : {FALSE}]
    \cup [id : FrameIds, response : {"undef"}, error : {TRUE}]

(* the call a frame is routed to, 0 when it is routed to none *)
Routed(frame) == IF frame.id \in DOMAIN inflight THEN inflight[frame.id] ELSE 0

(* what the caller's receiver may return for a frame: it is consulted only for
   a frame routed to a streaming call *)
FinOutcomes(frame) ==
  IF Routed(frame) # 0 /\ calls[Routed(frame)].kind = "multi" THEN BOOLEAN ELSE {FALSE}

(* the message event of the socket held, for one frame *)
DeliverFrame(frame, fin) ==
  /\ ws \in {"open", "closing"}
  /\ Routed(frame) # 0 => hist[Routed(frame)].recv < MaxFrames
  /\ Apply(onMessage(St, frame, fin))

Deliver == \E frame \in Frames : \E fin \in FinOutcomes(frame) : DeliverFrame(frame, fin)

(* the open event of the socket held *)
TransportOpen ==
  /\ ws = "connecting"
  /\ Apply(onOpen([St EXCEPT !.ws = "open"]))

(* the closing handshake of the socket held starts: readyState CLOSING *)
TransportClosing ==
  /\ ws = "open"
  /\ Apply([St EXCEPT !.ws = "closing"])

(* the close event of the socket held *)
TransportClose ==
  /\ ws \in {"connecting", "open", "closing"}
  /\ Apply(onClose(St))

(* the error event of the socket held *)
TransportError ==
  /\ ws \in {"connecting", "open", "closing"}
  /\ Apply(onError(St))

(* the reconnect timer armed by scheduleReconnect fires *)
ReconnectTimerFire ==
  \E ctorOk \in CtorOutcomes :
    /\ reconnectTimers > 0
    /\ Apply(reopen(ReconnectTimerCallback(St), ctorOk))

(* the application calls close() *)
Close == Apply(close(St))

(* the application calls reopen() *)
Reopen == \E ctorOk \in CtorOutcomes : Apply(reopen(St, ctorOk))

Next ==
  \/ MakeRequest
  \/ MakeRequestMulti
  \/ \E c \in Calls : FireTimer(c)
  \/ \E c \in Calls : FireStrayAttempt(c)
  \/ Deliver
  \/ TransportOpen
  \/ TransportClosing
  \/ TransportClose
  \/ TransportError
  \/ ReconnectTimerFire
  \/ Close
  \/ Reopen

Spec == Init /\ [][Next]_vars

(***************************************************************************)
(* The client while the transport never opens: no open event, hence no     *)
(* frame and no timer armed after a send, and the application does not     *)
(* call close()                                                            *)
(***************************************************************************)
NextDown ==
  \/ MakeRequest
  \/ MakeRequestMulti
  \/ \E c \in Calls : FireStrayAttempt(c)
  \/ TransportClose
  \/ TransportError
  \/ ReconnectTimerFire
  \/ Reopen

SpecDown == Init /\ [][NextDown]_vars

(***************************************************************************)
(* The client with a transport whose send does not throw while it is open, *)
(* and timers that fire: a pending timer of the event loop is not          *)
(* postponed for ever.  At most LiveCalls calls are issued.                *)
(***************************************************************************)
SendWorks == \A c \in 1..Len(calls') : calls'[c].timeoutId # "attempt"

(* on record: the transport dropped while the call was in the table *)
NoteDrop(s) ==
  [s EXCEPT !.hist = [c \in DOMAIN @ |->
                        IF c \in InTable(s) THEN [@[c] EXCEPT !.dropped = TRUE] ELSE @[c]]]

(* the close event of the socket held, put on record *)
TransportDrop ==
  /\ ws \in {"connecting", "open", "closing"}
  /\ Apply(onClose(NoteDrop(St)))

Live(A) == A /\ Len(calls') <= LiveCalls /\ SendWorks

NextLive ==
  \/ Live(MakeRequest)
  \/ Live(MakeRequestMulti)
  \/ \E c \in Calls : Live(FireTimer(c))
  \/ \E c \in Calls : Live(FireStrayAttempt(c))
  \/ Deliver
  \/ TransportOpen
  \/ TransportClosing
  \/ TransportDrop
  \/ TransportError
  \/ ReconnectTimerFire
  \/ Close
  \/ Reopen

TimersFire ==
  /\ \A c \in 1..LiveCalls : WF_vars(Live(FireTimer(c)))
  /\ \A c \in 1..LiveCalls : WF_vars(Live(FireStrayAttempt(c)))
  /\ WF_vars(ReconnectTimerFire)

SpecLive == Init /\ [][NextLive]_vars /\ TimersFire

(***************************************************************************)
(* The connection manager and its subscribers: the application subscribes  *)
(* and unsubscribes listeners, at most MaxSubs times, while the transport  *)
(* opens, fails and is reconnected; no request is issued                   *)
(***************************************************************************)
(* the application calls onConnectionStateChange(l) *)
Subscribe(l) ==
  /\ Len(handles) + Cardinality({i \in DOMAIN listeners : Throws(listeners[i])}) < MaxSubs
  /\ Apply(onConnectionStateChange(St, l))

(* the application calls the unsubscribe function h, for the first time or again *)
Unsubscribe(h) ==
  /\ h \in DOMAIN handles
  /\ Apply(unsubscribe(St, h))

NextListen ==
  \/ \E l \in ListenerIds : Subscribe(l)
  \/ \E h \in 1..MaxSubs : Unsubscribe(h)
  \/ TransportOpen
  \/ TransportClosing
  \/ TransportClose
  \/ TransportError
  \/ ReconnectTimerFire
  \/ Close
  \/ Reopen

SpecListen == Init /\ [][NextListen]_vars

(***************************************************************************)
(* The same with listeners that unsubscribe themselves when they are       *)
(* notified.                                                               *)
(***************************************************************************)
NextOnce ==
  \/ \E l \in AllListeners : Subscribe(l)
  \/ \E h \in 1..MaxSubs : Unsubscribe(h)
  \/ TransportOpen
  \/ TransportClosing
  \/ TransportClose
  \/ TransportError
  \/ ReconnectTimerFire
  \/ Close
  \/ Reopen

SpecOnce == Init /\ [][NextOnce]_vars

(***************************************************************************)
(* The same application and connection events for a client constructed     *)
(* with any of the token arguments.                                        *)
(***************************************************************************)
InitAuth ==
  \E tok \in Tokens : \E ctorOk \in BOOLEAN :
    Is(openSocket([Fresh EXCEPT !.token = tok], ctorOk))

SpecAuth == InitAuth /\ [][NextListen]_vars

(***************************************************************************)
(* The client driven through FlowsApi.startFlow only, at most LiveCalls    *)
(* times, over a transport that opens, replies, times out and drops        *)
(***************************************************************************)
FlowIds == {"flow-a", "flow-b"}
ClassNames == {"class-a", "class-b"}
Descriptions == {"first flow"}

(* the application calls flows().startFlow(fid, class_name, description, parameters) *)
StartFlow ==
  \E fid \in FlowIds, class_name \in ClassNames, description \in Descriptions,
     parameters \in ParameterArgs, sendOk \in SendOutcomes :
    /\ Len(calls) < LiveCalls
    /\ Apply(startFlow(St, fid, class_name, description, parameters, sendOk))

NextFlows ==
  \/ StartFlow
  \/ \E c \in Calls : FireTimer(c)
  \/ \E c \in Calls : FireStrayAttempt(c)
  \/ Deliver
  \/ TransportOpen
  \/ TransportClose
  \/ ReconnectTimerFire

SpecFlows == Init /\ [][NextFlows]_vars

(***************************************************************************)
(* The same client talking to a service whose error frames carry any of    *)
(* the error values.                                                       *)
(***************************************************************************)
InitErr ==
  \E e \in ErrorValues : \E ctorOk \in BOOLEAN :
    Is(openSocket([Fresh EXCEPT !.remoteError = e], ctorOk))

SpecErr == InitErr /\ [][NextFlows]_vars

(***************************************************************************)
(* Streaming entry points of FlowApi.  Each wraps makeRequestMulti with a  *)
(* receiver built from the caller's callbacks; they differ in whether they *)
(* attach a rejection handler to the promise makeRequestMulti returns.     *)
(***************************************************************************)
StreamingEntries ==
  {"agent", "graphRagStreaming", "documentRagStreaming", "textCompletionStreaming",
   "promptStreaming"}

(* the entry point chains .catch((err) => error(...)) to the promise *)
HasCatch(entry) == entry = "agent"

(* the promise returned by makeRequest / makeRequestMulti for call c: resolve
   and reject are the call's success and error callbacks, the first invocation
   settles it; an error is never followed by a success, so a success on record
   came first *)
PromiseOf(c) ==
  IF hist[c].succs # << >> THEN "fulfilled"
  ELSE IF hist[c].errs # << >> THEN "rejected"
  ELSE "pending"

(* how often the caller's error callback has been invoked because the promise
   of call c, issued through the entry point, was rejected *)
CallerErrorsOnFailure(entry, c) ==
  IF HasCatch(entry) /\ PromiseOf(c) = "rejected" THEN 1 ELSE 0

(* recv of a streaming entry point given an error response that reports the
   error to the caller but does not end the stream *)
StreamRecv_errorContinues(resp, eos) ==
  IF ~IsObject(resp) THEN [throws |-> TRUE, fin |-> FALSE, receiver |-> << >>, onError |-> 0]
  ELSE IF HasErrorField(resp)
    THEN [throws |-> FALSE, fin |-> FALSE, receiver |-> << >>, onError |-> 1]
    ELSE [throws |-> FALSE, fin |-> eos,
          receiver |-> <<[chunk |-> resp, complete |-> eos]>>, onError |-> 0]

(* the receiver predicate recv that graphRagStreaming, documentRagStreaming,
   textCompletionStreaming and promptStreaming hand to makeRequestMulti, applied
   to the response resp whose end_of_stream field is eos: what it returns (fin),
   the calls of the caller's receiver and of the caller's onError it makes, and
   whether it throws (reading .error of an absent response) *)
StreamRecv(resp, eos) ==
  IF ~IsObject(resp) THEN [throws |-> TRUE, fin |-> FALSE, receiver |-> << >>, onError |-> 0]
  ELSE IF HasErrorField(resp)
    THEN [throws |-> FALSE, fin |-> TRUE, receiver |-> << >>, onError |-> 1]
    ELSE [throws |-> FALSE, fin |-> eos,
          receiver |-> <<[chunk |-> resp, complete |-> eos]>>, onError |-> 0]

(***************************************************************************)
(* Observations used by the properties                                     *)
(***************************************************************************)
(* the number of timers of call c that can still fire *)
Timers(cs, c) ==
  (IF cs[c].timeoutId = "none" THEN 0 ELSE 1) + cs[c].strayAttempt + cs[c].strayTimeout

(* one of the callbacks of call c has been invoked *)
Resolved(c) == Len(hist[c].succs) + Len(hist[c].errs) >= 1

(***************************************************************************)
(* C1: at-most-one terminal resolution.  Once the success or the error     *)
(* callback of a call has been invoked, no step invokes a callback of that *)
(* call again, sends its request or arms a timer for it.                   *)
(***************************************************************************)
C1_AtMostOneResolution ==
  [][\A c \in Calls :
       Resolved(c) =>
         /\ hist'[c].succs = hist[c].succs
         /\ hist'[c].errs = hist[c].errs
         /\ hist'[c].sends = hist[c].sends
         /\ Timers(calls', c) <= Timers(calls, c)
         /\ (Timers(calls', c) = Timers(calls, c) => calls'[c] = calls[c])]_vars

(***************************************************************************)
(* C2: close() invokes the error callback of every call in the in-flight   *)
(* table exactly once, with 'Socket closed', invokes no other callback,    *)
(* and leaves the table empty, whatever the calls' budget, timers or kind. *)
(***************************************************************************)
C2_CloseFailsAll ==
  [][Close =>
       /\ inflight' = << >>
       /\ \A c \in Calls :
            /\ hist'[c].succs = hist[c].succs
            /\ hist'[c].errs = IF c \in InTable(St)
                                 THEN Append(hist[c].errs, "Socket closed")
                                 ELSE hist[c].errs]_vars

(* two calls of different kinds, one with a timeout pending and budget left,
   one waiting on a backoff timer, have both been failed by close() *)
C2_Witness ==
  /\ inflight = << >>
  /\ \E c, d \in Calls :
       /\ calls[c].kind = "single" /\ calls[d].kind = "multi"
       /\ hist[c].errs = <<"Socket closed">> /\ hist[d].errs = <<"Socket closed">>
       /\ calls[c].timeoutId = "onTimeout" /\ calls[c].retries > 0
       /\ calls[d].strayAttempt > 0 /\ calls[d].retries = 0

(***************************************************************************)
(* C3: a frame {id, response: R} without error, routed to an in-flight     *)
(* single-response call, invokes the success callback once with R, does    *)
(* not invoke the error callback and removes the identifier from the table.*)
(***************************************************************************)
C3_SuccessWithResponse ==
  [][\A frame \in Frames : \A fin \in FinOutcomes(frame) :
       (/\ DeliverFrame(frame, fin)
        /\ Routed(frame) # 0
        /\ calls[Routed(frame)].kind = "single"
        /\ frame.response \in {"plain", "wrap"})
       => /\ hist'[Routed(frame)].succs = <<frame.response>>
          /\ hist'[Routed(frame)].errs = << >>
          /\ frame.id \notin DOMAIN inflight']_vars

(***************************************************************************)
(* C4: every frame routed to an in-flight streaming call invokes the       *)
(* receiver once; the call terminates (success invoked once, identifier    *)
(* removed) on the first frame for which the receiver returns true and on  *)
(* no frame for which it returns false; a frame that is not routed to the  *)
(* call (in particular one that arrives after termination) and a step that *)
(* handles no frame do not invoke the receiver.                            *)
(***************************************************************************)
C4_StreamingDelivery ==
  [][/\ \A c \in InTable(St) :
          (calls[c].kind = "multi" /\ ws \in {"open", "closing"}) =>
          \A frame \in [id : {calls[c].mid}, response : Responses] : \A fin \in BOOLEAN :
          (Routed(frame) = c /\ DeliverFrame(frame, fin)) =>
            /\ hist'[c].recv = hist[c].recv + 1
            /\ IF fin
                 THEN /\ hist'[c].succs = <<frame.response>>
                      /\ frame.id \notin DOMAIN inflight'
                      /\ hist[c].succs = << >>
                 ELSE /\ hist'[c].succs = hist[c].succs
                      /\ frame.id \in DOMAIN inflight'
            /\ \A d \in Calls \ {c} : hist'[d].recv = hist[d].recv
     /\ \A c \in Calls :
          hist'[c].recv # hist[c].recv =>
            \E frame \in Frames : \E fin \in FinOutcomes(frame) :
              Routed(frame) = c /\ DeliverFrame(frame, fin)
     /\ \A c \in Calls :
          (calls[c].kind = "multi" /\ calls[c].mid \notin DOMAIN inflight)
            => calls[c].mid \notin DOMAIN inflight']_vars

(* a streaming call that was handed two frames and terminated on the second *)
C4_Witness ==
  \E c \in Calls :
    /\ calls[c].kind = "multi"
    /\ hist[c].recv = 2
    /\ Len(hist[c].succs) = 1
    /\ calls[c].mid \notin DOMAIN inflight

(***************************************************************************)
(* C5: while the transport never opens, a single-response call issued with *)
(* budget r has attempt() invoked at most r + 1 times; its error callback  *)
(* is invoked in the (r + 1)-th invocation, once, with 'Ran out of         *)
(* retries', and the call leaves the table then and not earlier; until     *)
(* then exactly one timer of the call is pending.                          *)
(***************************************************************************)
C5_RetryExhaustion ==
  \A c \in Calls :
    calls[c].kind = "single" =>
      /\ hist[c].attempts <= hist[c].r0 + 1
      /\ hist[c].sends = 0
      /\ hist[c].succs = << >>
      /\ IF hist[c].attempts = hist[c].r0 + 1
           THEN /\ hist[c].errs = <<"Ran out of retries">>
                /\ calls[c].mid \notin DOMAIN inflight
                /\ Timers(calls, c) = 0
           ELSE /\ hist[c].errs = << >>
                /\ calls[c].mid \in DOMAIN inflight
                /\ Timers(calls, c) = 1

(* a call with the largest budget has run out of retries *)
C5_Witness ==
  \E c \in Calls :
    /\ calls[c].kind = "single"
    /\ hist[c].r0 = MaxRetries
    /\ hist[c].attempts = MaxRetries + 1
    /\ hist[c].errs = <<"Ran out of retries">>

(***************************************************************************)
(* C7: an identifier is a key of the in-flight table exactly when none of  *)
(* the callbacks of its call has been invoked.                             *)
(***************************************************************************)
C7_TableIffUnresolved ==
  \A c \in Calls : (calls[c].mid \in DOMAIN inflight) <=> ~Resolved(c)

(***************************************************************************)
(* C8: the identifiers issued are pairwise different; the counter is one   *)
(* more than the number of calls issued so far, whatever happened to them. *)
(***************************************************************************)
C8_UniqueIds ==
  /\ id = Len(calls) + 1
  /\ \A c \in Calls : calls[c].mid = c
  /\ \A c, d \in Calls : c # d => calls[c].mid # calls[d].mid

(* a call failed by close(), then a call that failed immediately *)
C8_Witness ==
  /\ Len(calls) = 2
  /\ hist[1].errs = <<"Socket closed">>
  /\ hist[2].r0 = 0 /\ hist[2].errs = <<"Ran out of retries">>
  /\ calls[1].kind # calls[2].kind

(***************************************************************************)
(* C9: whenever the close event is handled, or the reconnect timer fires   *)
(* and the socket cannot be constructed, and the counter has not exceeded  *)
(* the maximum, a reconnect timer is pending afterwards.                   *)
(***************************************************************************)
C9_ReconnectProgress ==
  [][/\ TransportClose
          => (reconnectTimer' \/ reconnectAttempts' > maxReconnectAttempts)
     /\ (ReconnectTimerFire /\ ws' = "none")
          => (reconnectTimer' \/ reconnectAttempts' > maxReconnectAttempts)]_vars

(***************************************************************************)
(* C10: every failed open attempt (a close event while no reconnect timer  *)
(* is pending and the connection is not marked failed) increments the      *)
(* counter; up to the maximum a timer is armed, beyond it the connection   *)
(* is marked failed, the in-flight calls are failed and no timer is armed. *)
(***************************************************************************)
C10_ReconnectExhaustion ==
  [][(TransportClose /\ ~reconnectTimer /\ reconnectionState # "failed") =>
       /\ reconnectAttempts' = reconnectAttempts + 1
       /\ IF reconnectAttempts' > maxReconnectAttempts
            THEN /\ reconnectionState' = "failed"
                 /\ ~reconnectTimer'
                 /\ \A c \in InTable(St) :
                      hist'[c].errs = Append(hist[c].errs, "WebSocket connection failed")
            ELSE reconnectTimer']_vars

(***************************************************************************)
(* C6: a call that is in the table with budget left (retries >= 1) while   *)
(* the transport is open sends its request again, unless the transport     *)
(* leaves the open state, a reply completes the call or close() fails it   *)
(* first; a call in the table has had no callback invoked, so the drop     *)
(* itself surfaced no error; and the receiver is invoked only by a step    *)
(* that handles an inbound frame, so nothing is delivered again.           *)
(***************************************************************************)
C6_ResendAfterReopen ==
  /\ \A c \in 1..LiveCalls : \A k \in 0..(MaxRetries + 1) :
       (/\ c \in Calls
        /\ ws = "open"
        /\ calls[c].mid \in DOMAIN inflight
        /\ calls[c].retries >= 1
        /\ hist[c].sends = k)
       ~> (/\ c \in Calls
           /\ \/ hist[c].sends > k
              \/ ws # "open"
              \/ calls[c].complete
              \/ hist[c].errs = <<"Socket closed">>)
  /\ [](\A c \in Calls : calls[c].mid \in DOMAIN inflight => ~Resolved(c))
  /\ [][~Deliver => \A c \in Calls : hist'[c].recv = hist[c].recv]_vars

(* a call that sent on a transport, outlived the drop with budget left and
   sent again after the reopen *)
C6_Witness ==
  \E c \in Calls :
    /\ ws = "open"
    /\ reconnectionState = "idle" /\ published.status = "unauthenticated"
    /\ calls[c].mid \in DOMAIN inflight
    /\ hist[c].dropped
    /\ hist[c].sends = 2
    /\ hist[c].errs = << >>

(***************************************************************************)
(* C11: the client holds one socket at most (this.ws), every socket it     *)
(* lets go of has its handlers removed or is closed, and a socket that is  *)
(* connecting or open is never replaced: no step takes an open socket back *)
(* to connecting, and openSocket() and reopen() applied to a state whose   *)
(* socket is connecting or open return that state unchanged, for either    *)
(* outcome of the constructor; so does the application's reopen() step.    *)
(***************************************************************************)
C11_OneLiveTransport ==
  /\ [](ws \in {"connecting", "open"} =>
          \A ctorOk \in BOOLEAN :
            /\ openSocket(St, ctorOk) = St
            /\ reopen(St, ctorOk) = St)
  /\ [][/\ (Reopen /\ ws \in {"connecting", "open"}) => UNCHANGED vars
        /\ (ReconnectTimerFire /\ ws \in {"connecting", "open"})
             => UNCHANGED <<ws, inflight, reconnectAttempts, reconnectionState,
                            lastError, published, calls, hist>>
        /\ ws = "open" => ws' # "connecting"
        /\ (ws = "connecting" /\ ws' = "open") => TransportOpen]_vars

(* the reconnect timer has fired after a streaming call's attempt had already
   brought up a new socket: reopen() found it connecting and built none *)
C11_Witness ==
  /\ ws = "connecting"
  /\ reconnectionState = "reconnecting"
  /\ ~reconnectTimer
  /\ \E c \in Calls : calls[c].kind = "multi" /\ calls[c].strayAttempt > 0

(***************************************************************************)
(* C12: the step that handles the open event of the socket invokes         *)
(* retryNow() on every call that is in the in-flight table and not         *)
(* complete: each such call makes an attempt in that very step.            *)
(***************************************************************************)
C12_OpenRetriesNow ==
  [][TransportOpen =>
       \A c \in InTable(St) :
         ~calls[c].complete => hist'[c].attempts = hist[c].attempts + 1]_vars

C14_RemoteError ==
  [][/\ \A frame \in Frames :
          (/\ Routed(frame) # 0
           /\ calls[Routed(frame)].kind = "single"
           /\ (frame.error \/ frame.response = "err")
           /\ DeliverFrame(frame, FALSE))
          => /\ Len(hist'[Routed(frame)].errs) = Len(hist[Routed(frame)].errs) + 1
             /\ hist'[Routed(frame)].succs = hist[Routed(frame)].succs
             /\ Timers(calls', Routed(frame)) = 0
             /\ frame.id \notin DOMAIN inflight'
     /\ \A c \in Calls :
          (calls[c].kind = "single" /\ calls[c].complete /\ hist[c].errs # << >>)
          => /\ hist'[c].sends = hist[c].sends
             /\ hist'[c].errs = hist[c].errs
             /\ hist'[c].succs = hist[c].succs]_vars

(***************************************************************************)
(* C15: in every reachable state, handling a frame that has no identifier  *)
(* or whose identifier is not a key of the in-flight table (the reply to a *)
(* call that has left the table, or an identifier no call bears) changes   *)
(* nothing: table, calls (budget, timers, completion flag), connection     *)
(* state, published snapshot and the record of callback invocations are    *)
(* what they were.                                                         *)
(***************************************************************************)
C15_UnroutableFrameIgnored ==
  \A frame \in Frames : \A fin \in BOOLEAN :
    Routed(frame) = 0 => onMessage(St, frame, fin) = St

(* the socket is open, a call that sent its request has completed and left the
   table, so that a late reply to it can arrive, while another call waits for
   its reply with a timeout pending *)
C15_Witness ==
  /\ ws = "open"
  /\ \E c, d \in Calls :
       /\ hist[c].sends > 0 /\ calls[c].complete /\ calls[c].mid \notin DOMAIN inflight
       /\ [id |-> calls[c].mid, response |-> "plain", error |-> FALSE] \in Frames
       /\ calls[d].mid \in DOMAIN inflight /\ calls[d].timeoutId = "onTimeout"

C17_CallerErrorOnFailure ==
  \A c \in Calls :
    (calls[c].kind = "multi" /\ PromiseOf(c) = "rejected") =>
      \A entry \in StreamingEntries : CallerErrorsOnFailure(entry, c) = 1

(***************************************************************************)
(* C18: every step of the connection manager (open event, close event,     *)
(* error event, reconnect timer firing, close()) that changes the snapshot *)
(* derived from the state publishes the new snapshot: it is the one        *)
(* notifyStateChange computed last and the last one handed, in that step,  *)
(* to every subscribed listener.                                           *)
(***************************************************************************)
C18_SnapshotPushed ==
  [][((TransportOpen \/ TransportClose \/ TransportError \/ ReconnectTimerFire \/ Close)
      /\ getConnectionState(St)' # getConnectionState(St))
     => /\ published' = getConnectionState(St)'
        /\ \A i \in DOMAIN listeners' :
             /\ delivered'[listeners'[i]] # << >>
             /\ delivered'[listeners'[i]][Len(delivered'[listeners'[i]])]
                  = getConnectionState(St)']_vars

(***************************************************************************)
(* C19: onConnectionStateChange(l) hands the current snapshot to l exactly *)
(* once in the step that subscribes it and to no other listener; a         *)
(* listener none of whose subscriptions is still active (every unsubscribe *)
(* function returned for it has been called) is not in the array, so it    *)
(* receives nothing; and calling an unsubscribe function again leaves the  *)
(* array of listeners as it was.                                           *)
(***************************************************************************)
C19_SubscribeUnsubscribe ==
  /\ [][/\ \A l \in ListenerIds :
             Subscribe(l) =>
               /\ delivered'[l] = <<getConnectionState(St)>>
               /\ \A m \in ListenerIds \ {l} : delivered'[m] = << >>
        /\ \A h \in DOMAIN handles :
             (Unsubscribe(h) /\ handles[h].called) => listeners' = listeners]_vars
  /\ [](\A l \in ListenerIds :
          (~Throws(l) /\ \A h \in DOMAIN handles : handles[h].listener = l => handles[h].called)
            => \A i \in DOMAIN listeners : listeners[i] # l)

(* how often l is registered *)
Registrations(l) == Cardinality({i \in DOMAIN listeners : listeners[i] = l})

(* the step ends as the run r of the handler with one well-behaved listener *)
EndsAs(r) ==
  /\ <<ws', inflight', reconnectAttempts', reconnectTimer', reconnectionState',
       lastError', published', hist'>>
       = <<r.ws, r.inflight, r.reconnectAttempts, r.reconnectTimer, r.reconnectionState,
           r.lastError, r.published, r.hist>>
  /\ \A l \in ListenerIds :
       /\ Len(delivered'[l]) = Registrations(l) * Len(r.delivered["l1"])
       /\ Registrations(l) = 1 => delivered'[l] = r.delivered["l1"]
       /\ \A k \in DOMAIN delivered'[l] :
            \E j \in DOMAIN r.delivered["l1"] : delivered'[l][k] = r.delivered["l1"][j]

(***************************************************************************)
(* C20: a listener that throws while a snapshot is published does not      *)
(* change what a connection event handler does.  Compared with the same    *)
(* handler run from the same state with a single listener that does not    *)
(* throw: the connection state, the reconnect scheduling, the in-flight    *)
(* table and the snapshot computed last end up the same, and every         *)
(* registered listener, wherever it stands in the array, is handed every   *)
(* snapshot that handler publishes, once per registration.                 *)
(***************************************************************************)
C20_ListenerExceptionContained ==
  [][/\ TransportOpen =>
          EndsAs(onOpen([St EXCEPT !.ws = "open", !.listeners = <<"l1">>]))
     /\ TransportClose => EndsAs(onClose([St EXCEPT !.listeners = <<"l1">>]))
     /\ TransportError => EndsAs(onError([St EXCEPT !.listeners = <<"l1">>]))]_vars

(* the close event has been handled with a throwing listener registered ahead
   of a well-behaved one: both were handed the two snapshots it publishes *)
C20_Witness ==
  /\ listeners = <<"thrower", "l1">>
  /\ Len(delivered["thrower"]) = 2
  /\ Len(delivered["l1"]) = 2
  /\ delivered["l1"][2] = published
  /\ reconnectTimer

(***************************************************************************)
(* C21: for a streaming call issued through graphRagStreaming (or one of   *)
(* its three variants), every response object routed to the call invokes   *)
(* the predicate once, in the step that handles the frame.  A response     *)
(* without error invokes the caller's receiver once with (chunk, complete) *)
(* and no onError, and the stream ends (success invoked, call removed from *)
(* the table) exactly when end_of_stream is set; a response with an error  *)
(* invokes onError once and no receiver, and ends the stream.              *)
(***************************************************************************)
C21_StreamingEntryDelivery ==
  [][\A c \in InTable(St) :
       (calls[c].kind = "multi" /\ ws \in {"open", "closing"}) =>
       \A resp \in Responses \ {"undef"} : \A eos \in BOOLEAN :
         DeliverFrame([id |-> calls[c].mid, response |-> resp, error |-> FALSE],
                      StreamRecv(resp, eos).fin) =>
           /\ ~StreamRecv(resp, eos).throws
           /\ hist'[c].recv = hist[c].recv + 1
           /\ hist'[c].errs = hist[c].errs
           /\ IF HasErrorField(resp)
                THEN /\ StreamRecv(resp, eos).onError = 1
                     /\ StreamRecv(resp, eos).receiver = << >>
                     /\ hist'[c].succs = Append(hist[c].succs, resp)
                     /\ calls[c].mid \notin DOMAIN inflight'
                ELSE /\ StreamRecv(resp, eos).onError = 0
                     /\ StreamRecv(resp, eos).receiver = <<[chunk |-> resp, complete |-> eos]>>
                     /\ IF eos THEN /\ hist'[c].succs = Append(hist[c].succs, resp)
                                     /\ calls[c].mid \notin DOMAIN inflight'
                                ELSE /\ hist'[c].succs = hist[c].succs
                                     /\ calls[c].mid \in DOMAIN inflight']_vars

(* a stream that delivered a chunk and was then ended by an error response *)
C21_Witness ==
  \E c \in Calls :
    /\ calls[c].kind = "multi"
    /\ hist[c].recv = 2
    /\ hist[c].succs = <<"err">>
    /\ hist[c].errs = << >>
    /\ calls[c].mid \notin DOMAIN inflight

(***************************************************************************)
(* C22: startFlow(id, className, description) called without parameters    *)
(* issues exactly one request, to service 'flow', with timeout 30000 and   *)
(* the payload {operation: 'start-flow', 'flow-id': id, 'blueprint-name':  *)
(* className, description: description} and nothing else; and when the     *)
(* reply carries no error the promise it returns is fulfilled with the     *)
(* response of the reply.                                                  *)
(***************************************************************************)
C22_StartFlowRequest ==
  /\ [](/\ Len(issued) = Len(calls)
        /\ \A i \in DOMAIN issued :
             issued[i].args.parameters = "absent" =>
               /\ issued[i].service = "flow"
               /\ issued[i].timeout = 30000
               /\ issued[i].request =
                    {<<"operation", "start-flow">>,
                     <<"flow-id", issued[i].args.fid>>,
                     <<"blueprint-name", issued[i].args.class_name>>,
                     <<"description", issued[i].args.description>>})
  /\ [][\A frame \in Frames :
          (/\ Routed(frame) # 0
           /\ frame.response \in {"plain", "wrap"}
           /\ DeliverFrame(frame, FALSE))
          => /\ Len(hist'[Routed(frame)].succs) = 1
             /\ startFlowResult(hist'[Routed(frame)].succs[1]) = frame.response]_vars

(***************************************************************************)
(* C23: in every reachable state, attempt() invoked on a call that is in   *)
(* the table, not complete and has budget left after the decrement, while  *)
(* the socket is not open or send throws, invokes no callback, sends       *)
(* nothing, keeps the call in the table and arms exactly one more timer,   *)
(* which re-invokes attempt() and is the timer the call's timeoutId refers *)
(* to.                                                                     *)
(***************************************************************************)
C23_BackoffTimerTracked ==
  \A c \in InTable(St) : \A sendOk \in BOOLEAN : \A ctorOk \in BOOLEAN :
    (/\ ~calls[c].complete
     /\ calls[c].retries >= 1
     /\ (ws # "open" \/ ~sendOk))
    => /\ Attempt(St, c, sendOk, ctorOk).hist[c].errs = hist[c].errs
       /\ Attempt(St, c, sendOk, ctorOk).hist[c].succs = hist[c].succs
       /\ Attempt(St, c, sendOk, ctorOk).hist[c].sends = hist[c].sends
       /\ calls[c].mid \in DOMAIN Attempt(St, c, sendOk, ctorOk).inflight
       /\ Timers(Attempt(St, c, sendOk, ctorOk).calls, c) = Timers(calls, c) + 1
       /\ Attempt(St, c, sendOk, ctorOk).calls[c].timeoutId = "attempt"

(***************************************************************************)
(* C24: in every reachable state, retryNow() on a call that is not         *)
(* complete makes one attempt; when the socket is open and the send        *)
(* succeeds, the budget afterwards equals the budget before, the request   *)
(* has been sent once more, and exactly one timer of the call, the new     *)
(* timeout, is pending (every timer pending before has been cancelled).    *)
(* retryNow() on a complete call returns the state unchanged.              *)
(***************************************************************************)
C24_RetryNowRefund ==
  \A c \in Calls : \A ctorOk \in BOOLEAN :
    IF calls[c].complete
      THEN \A sendOk \in BOOLEAN : RetryNow(St, c, sendOk, ctorOk) = St
      ELSE /\ RetryNow(St, c, TRUE, ctorOk).hist[c].attempts = hist[c].attempts + 1
           /\ (ws = "open" /\ calls[c].mid \in DOMAIN inflight) =>
                /\ RetryNow(St, c, TRUE, ctorOk).calls[c].retries = calls[c].retries
                /\ RetryNow(St, c, TRUE, ctorOk).hist[c].sends = hist[c].sends + 1
                /\ RetryNow(St, c, TRUE, ctorOk).calls[c].timeoutId = "onTimeout"
                /\ Timers(RetryNow(St, c, TRUE, ctorOk).calls, c) = 1

(***************************************************************************)
(* C25: in every reachable state in which the timeout timer of a call that *)
(* is not complete is pending, its firing takes exactly one unit of the    *)
(* budget and invokes no success callback; when the budget is then still   *)
(* >= 0 and the socket is open (and send does not throw) the request is    *)
(* sent once more and a fresh timeout timer replaces the one that fired;   *)
(* when the budget is then below zero the error callback is invoked once   *)
(* with 'Ran out of retries', nothing is sent and no timer is armed.       *)
(***************************************************************************)
C25_TimeoutConsumesBudget ==
  \A c \in Calls : \A ctorOk \in BOOLEAN :
    (calls[c].timeoutId = "onTimeout" /\ ~calls[c].complete) =>
      LET r == OnTimeout(ClearTimeout(St, c), c, TRUE, ctorOk)
      IN /\ r.calls[c].retries = calls[c].retries - 1
         /\ r.hist[c].succs = hist[c].succs
         /\ (calls[c].retries >= 1 /\ ws = "open") =>
              /\ r.hist[c].sends = hist[c].sends + 1
              /\ r.hist[c].errs = hist[c].errs
              /\ r.calls[c].timeoutId = "onTimeout"
              /\ Timers(r.calls, c) = Timers(calls, c)
         /\ calls[c].retries <= 0 =>
              /\ r.hist[c].sends = hist[c].sends
              /\ r.hist[c].errs = Append(hist[c].errs, "Ran out of retries")
              /\ calls[c].mid \notin DOMAIN r.inflight
              /\ Timers(r.calls, c) = Timers(calls, c) - 1

(* a call whose timeout fired once and re-sent, with the fresh timeout pending,
   next to a call whose timeout found the budget used up *)
C25_Witness ==
  \E c, d \in Calls :
    /\ hist[c].attempts = 2 /\ hist[c].sends = 2
    /\ calls[c].timeoutId = "onTimeout" /\ calls[c].mid \in DOMAIN inflight
    /\ hist[d].r0 = 1 /\ hist[d].sends = 1 /\ hist[d].attempts = 2
    /\ hist[d].errs = <<"Ran out of retries">>

(***************************************************************************)
(* C26: in every reachable state, onReceived(), onTimeout() and attempt()  *)
(* invoked on a call whose completion flag is set return the state they    *)
(* were given: budget, timers, table, completion flag and the record of    *)
(* sends and callback invocations are unchanged.                           *)
(***************************************************************************)
C26_CompleteCallUntouched ==
  \A c \in Calls :
    calls[c].complete =>
      \A sendOk \in SendOutcomes : \A ctorOk \in CtorOutcomes :
        /\ Attempt(St, c, sendOk, ctorOk) = St
        /\ OnTimeout(St, c, sendOk, ctorOk) = St
        /\ \A resp \in Responses \ {"undef"} : \A fin \in BOOLEAN :
             OnReceived(St, c, resp, fin) = St

(***************************************************************************)
(* C27: in every reachable state, handling a frame routed to a streaming   *)
(* call whose receiver returns false for it changes nothing but the count  *)
(* of receiver invocations: the call stays in the table, not complete,     *)
(* with the same budget and the same timers (the pending timeout is        *)
(* neither cleared nor re-armed), nothing is sent and no callback invoked. *)
(***************************************************************************)
C27_NonFinalFrame ==
  \A c \in InTable(St) :
    calls[c].kind = "multi" =>
      \A resp \in Responses :
        onMessage(St, [id |-> calls[c].mid, response |-> resp, error |-> FALSE], FALSE)
          = [St EXCEPT !.hist[c].recv = @ + 1]

(* a streaming call that has had a frame handed to its receiver is still in
   the table, not complete, with its timeout pending *)
C27_Witness ==
  \E c \in Calls :
    /\ calls[c].kind = "multi"
    /\ hist[c].recv >= 1
    /\ calls[c].mid \in DOMAIN inflight
    /\ ~calls[c].complete
    /\ calls[c].timeoutId = "onTimeout"
    /\ hist[c].sends = 1 /\ hist[c].succs = << >> /\ hist[c].errs = << >>

(***************************************************************************)
(* C28: in every reachable state with a streaming call in the table whose  *)
(* timeout is pending after at least one non-final frame, the firing of    *)
(* the timeout does what it does for a call that has received nothing:     *)
(* with budget left and the socket open the request is sent once more, the *)
(* call stays in the table with a fresh timeout and its receiver still     *)
(* gets the frames that arrive; with the budget used up the call leaves    *)
(* the table and its error callback gets "Ran out of retries".             *)
(***************************************************************************)
C28_TimeoutAfterFrames ==
  \A c \in InTable(St) :
    (calls[c].kind = "multi" /\ hist[c].recv >= 1
       /\ calls[c].timeoutId = "onTimeout" /\ ~calls[c].complete) =>
      \A ctorOk \in CtorOutcomes :
        LET r == onTimeoutMulti(St, c, TRUE, ctorOk)
            fresh == [St EXCEPT !.hist[c].recv = 0]
        IN /\ \A sendOk \in SendOutcomes :
                onTimeoutMulti(St, c, sendOk, ctorOk)
                  = [onTimeoutMulti(fresh, c, sendOk, ctorOk)
                       EXCEPT !.hist[c].recv = hist[c].recv]
           /\ (calls[c].retries >= 1 /\ ws = "open") =>
                /\ r.hist[c].sends = hist[c].sends + 1
                /\ r.hist[c].errs = hist[c].errs
                /\ r.hist[c].succs = hist[c].succs
                /\ c \in InTable(r)
                /\ ~r.calls[c].complete
                /\ r.calls[c].timeoutId = "onTimeout"
                /\ r.calls[c].retries = calls[c].retries - 1
                /\ onMessage(r, [id |-> calls[c].mid, response |-> "plain",
                                 error |-> FALSE], FALSE).hist[c].recv
                     = hist[c].recv + 1
           /\ calls[c].retries <= 0 =>
                /\ r.hist[c].sends = hist[c].sends
                /\ r.hist[c].errs = Append(hist[c].errs, "Ran out of retries")
                /\ r.hist[c].succs = hist[c].succs
                /\ c \notin InTable(r)

(* one streaming call was sent again after its first send timed out and has
   had a frame, and another, with a budget of one, was sent once, had a
   frame and then ran out of retries at its timeout *)
C28_Witness ==
  \E c, d \in Calls :
    /\ calls[c].kind = "multi" /\ calls[d].kind = "multi"
    /\ hist[c].recv >= 1 /\ hist[c].sends = 2 /\ hist[c].attempts = 2
    /\ calls[c].mid \in DOMAIN inflight /\ calls[c].timeoutId = "onTimeout"
    /\ hist[d].r0 = 1 /\ hist[d].sends = 1 /\ hist[d].attempts = 2
    /\ hist[d].recv >= 1
    /\ hist[d].errs = <<"Ran out of retries">>

(* the state with call c regarded as a call of class k *)
AsKind(s, c, k) == [s EXCEPT !.calls[c].kind = k]

(***************************************************************************)
(* C29: in every reachable state, registering a streaming call, running    *)
(* its attempt(), firing its timeout and notifying it with retryNow()      *)
(* leave the same state as the same step of a single-response call in its  *)
(* place, for the same outcome of the send: the same sends, budget, timers *)
(* and failure, and the same connection.                                   *)
(***************************************************************************)
C29_SameMechanics ==
  /\ Len(calls) < MaxCalls =>
        \A r \in RetryVals : \A sendOk \in SendOutcomes : \A ctorOk \in CtorOutcomes :
          AsKind(makeRequestMulti(St, r, sendOk, ctorOk), Len(calls) + 1, "single")
            = makeRequest(St, r, sendOk)
  /\ \A c \in Calls : \A sendOk \in SendOutcomes : \A ctorOk \in CtorOutcomes :
        ~calls[c].complete =>
          /\ AsKind(attemptMulti(St, c, sendOk, ctorOk), c, "single")
               = attempt(AsKind(St, c, "single"), c, sendOk)
          /\ AsKind(onTimeoutMulti(St, c, sendOk, ctorOk), c, "single")
               = onTimeout(AsKind(St, c, "single"), c, sendOk)
          /\ AsKind(retryNowMulti(St, c, sendOk, ctorOk), c, "single")
               = retryNow(AsKind(St, c, "single"), c, sendOk)

(***************************************************************************)
(* C30: at most one timer armed by scheduleReconnect() is pending in any   *)
(* reachable state, and reconnectTimer holds a handle exactly when one is; *)
(* in every reachable state with the handle held or reconnectionState      *)
(* "reconnecting", scheduleReconnect() returns the state it was given (the *)
(* counter, the timers and what the listeners were handed included); and a *)
(* step in which the reconnect timer fires ends as reopen() run from the   *)
(* state with the handle cleared, with no reconnect timer pending.         *)
(***************************************************************************)
C30_OneReconnectTimer ==
  /\ [](/\ reconnectTimers <= 1
        /\ reconnectTimer <=> (reconnectTimers = 1)
        /\ (reconnectTimer \/ reconnectionState = "reconnecting")
             => scheduleReconnect(St) = St)
  /\ [][ReconnectTimerFire =>
          /\ ~ReconnectTimerCallback(St).reconnectTimer
          /\ ~reconnectTimer' /\ reconnectTimers' = 0
          /\ \E ctorOk \in CtorOutcomes :
               LET r == reopen(ReconnectTimerCallback(St), ctorOk)
               IN <<ws', reconnectAttempts', reconnectionState', published', delivered'>>
                    = <<r.ws, r.reconnectAttempts, r.reconnectionState, r.published,
                        r.delivered>>]_vars

(* the reconnect timer has fired and the transport is gone again: the
   scheduleReconnect() that followed found the reconnect in progress and
   armed nothing *)
C30_Witness ==
  /\ reconnectionState = "reconnecting"
  /\ ~reconnectTimer /\ reconnectTimers = 0
  /\ ws = "none"
  /\ reconnectAttempts = 1

(* what C31 requires of the state r that onOpen() leaves *)
OpenedCleanly(r) ==
  /\ r.reconnectAttempts = 0
  /\ r.reconnectionState = "idle"
  /\ r.lastError = "none"
  /\ ~r.reconnectTimer /\ r.reconnectTimers = 0
  /\ r.published.status = IF r.token \in {"undef", ""} THEN "unauthenticated"
                                                        ELSE "authenticated"
  /\ r.published.lastError = "none"

Untouched(r, d) ==
  /\ r.calls[d] = calls[d]
  /\ r.hist[d] = hist[d]
  /\ calls[d].mid \in DOMAIN r.inflight
  /\ r.inflight[calls[d].mid] = d

(***************************************************************************)
(* C32: in every reachable state, for any two distinct calls c and d in    *)
(* the table, the firing of c's tracked timer, the firing of a backoff     *)
(* timer of c, and the handling of any frame routed to c (whatever the     *)
(* outcome: resend, completion, remote error, retry exhaustion) leave d's  *)
(* budget, timers, completion flag, table entry and record of callback     *)
(* invocations as they are.                                                *)
(***************************************************************************)
C32_CallsIndependent ==
  \A c \in InTable(St) : \A d \in InTable(St) \ {c} :
    /\ \A sendOk \in SendOutcomes : \A ctorOk \in CtorOutcomes :
         /\ calls[c].timeoutId = "onTimeout" =>
              Untouched(OnTimeout(ClearTimeout(St, c), c, sendOk, ctorOk), d)
         /\ calls[c].timeoutId = "attempt" =>
              Untouched(Attempt(ClearTimeout(St, c), c, sendOk, ctorOk), d)
         /\ calls[c].strayAttempt > 0 =>
              Untouched(Attempt([St EXCEPT !.calls[c].strayAttempt = @ - 1],
                                c, sendOk, ctorOk), d)
    /\ ws \in {"open", "closing"} =>
         \A frame \in Frames : \A fin \in BOOLEAN :
           frame.id = calls[c].mid => Untouched(onMessage(St, frame, fin), d)

(* a streaming call created second has had a frame, has timed out and has
   run out of retries, while the call created first is still in the table
   with its first send awaiting its timeout *)
C32_Witness ==
  /\ Len(calls) = 2
  /\ calls[2].kind = "multi"
  /\ hist[2].recv >= 1 /\ hist[2].attempts >= 2
  /\ hist[2].errs = <<"Ran out of retries">>
  /\ calls[1].mid \in DOMAIN inflight
  /\ hist[1].sends = 1 /\ hist[1].attempts = 1
  /\ calls[1].retries = hist[1].r0 - 1
  /\ calls[1].timeoutId = "onTimeout"
  /\ hist[1].succs = << >> /\ hist[1].errs = << >>

(* the message C33 prescribes for the error value e *)
PrescribedMessage(e) ==
  IF e.kind = "object" /\ e.message \notin {"undef", "num", ""} THEN e.message
  ELSE IF e.kind = "object" /\ e.type \notin {"undef", "num", ""} THEN e.type
  ELSE "Unknown error"

(***************************************************************************)
(* C33: in every reachable state, when onReceived() of a single-response   *)
(* call in the table is handed a response that carries an error value the  *)
(* code treats as an error, the error callback is invoked once, with the   *)
(* error's message field if that is a non-empty string, else its type      *)
(* field if that is a non-empty string, else "Unknown error" (so also for  *)
(* an error that is a plain string or an object with neither field), and   *)
(* the success callback is not invoked.                                    *)
(***************************************************************************)
C33_ErrorMessage ==
  \A c \in InTable(St) :
    (calls[c].kind = "single" /\ ~calls[c].complete /\ Truthy(remoteError)) =>
      \A resp \in {"err", "wrapErr"} :
        LET r == onReceived(St, c, resp)
        IN /\ r.hist[c].errs = Append(hist[c].errs, PrescribedMessage(remoteError))
           /\ r.hist[c].succs = hist[c].succs

(* a call has failed with the type of an error whose message is the empty
   string *)
C33_Witness ==
  \E c \in Calls :
    /\ remoteError.kind = "object"
    /\ remoteError.message = "" /\ remoteError.type = "service-error"
    /\ calls[c].kind = "single" /\ calls[c].complete
    /\ hist[c].errs = <<"service-error">>
    /\ hist[c].succs = << >>

(* call c was in the table when close() ran: close() is the only caller of
   its error callback with "Socket closed" *)
FailedByClose(c) == \E i \in DOMAIN hist[c].errs : hist[c].errs[i] = "Socket closed"

(***************************************************************************)
(* C34: once close() has failed a call that was in the table, no step      *)
(* runs an attempt of that call, sends its request or invokes one of its   *)
(* callbacks, and no firing of a timer of that call changes the socket the *)
(* client holds or arms a reconnect timer.                                 *)
(***************************************************************************)
C34_QuiescentAfterClose ==
  [][\A c \in Calls :
       FailedByClose(c) =>
         /\ hist'[c] = hist[c]
         /\ (FireTimer(c) \/ FireStrayAttempt(c)) =>
              /\ ws' = ws
              /\ reconnectTimers' = reconnectTimers
              /\ reconnectAttempts' = reconnectAttempts]_vars

(***************************************************************************)
(* C35: with timers that fire, every call that was started reaches, and    *)
(* stays in, a state in which exactly one invocation of its success or     *)
(* error callback is on record and the call is not in the table, whatever  *)
(* the transport does and whatever frames arrive.                          *)
(***************************************************************************)
C35_EventualResolution ==
  \A c \in 1..LiveCalls :
    (c \in Calls) ~>
      [](/\ c \in Calls
         /\ Len(hist[c].succs) + Len(hist[c].errs) = 1
         /\ calls[c].mid \notin DOMAIN inflight)

(***************************************************************************)
(* C36: a step that issues a call while the socket is open does not invoke *)
(* the error callback of that call unless the request was sent; and a call *)
(* issued with budget r that has sent its request in each invocation of    *)
(* attempt() but the last, and has then run out of retries, has sent r + 1 *)
(* times.                                                                  *)
(***************************************************************************)
C36_SendsBeforeExhaustion ==
  /\ [][((MakeRequest \/ MakeRequestMulti) /\ ws = "open") =>
          (hist'[Len(calls')].errs # << >> => hist'[Len(calls')].sends >= 1)]_vars
  /\ [](\A c \in Calls :
          (/\ hist[c].errs = <<"Ran out of retries">>
           /\ hist[c].sends >= 1
           /\ hist[c].sends = hist[c].attempts - 1)
            => hist[c].sends = hist[c].r0 + 1)

C38_EveryListenerNotified ==
  [][(TransportOpen \/ TransportError) =>
       \A l \in AllListeners :
         Cardinality({i \in DOMAIN listeners : listeners[i] = l}) = 1
           => delivered'[l] = <<published'>>]_vars

====
